---- MODULE Spec2Model ----
(***************************************************************************)
(* Model of data_analysis/analyzers.py (class DatasetAnalyzer): the CSV    *)
(* loader (__init__), the metric methods, the recommendation policy and    *)
(* the report assembler analyze_complete; and of the upload handler        *)
(* UploadAndAnalyzeView.post of data_analysis/views.py, which runs them.   *)
(*                                                                         *)
(* A DataFrame is represented by what the metric methods read from it      *)
(* through pandas: its row count, the number of duplicated rows, and per   *)
(* column the dtype, the number of null cells, the number of rows the IQR  *)
(* filter selects, and a correlation loading.  The Pearson correlation of  *)
(* two numeric columns with loadings a and b (in thousandths) is a*b (in   *)
(* millionths): the correlation matrix of a one-factor dataset, so every   *)
(* matrix the model draws is one pandas can return.                        *)
(*                                                                         *)
(* Numbers: percentages rounded to 2 decimals are integers in hundredths,  *)
(* scores rounded to 1 decimal are integers in tenths, correlations are    *)
(* integers in millionths (raw) and thousandths (rounded to 3 decimals).   *)
(***************************************************************************)
EXTENDS Integers, Sequences, FiniteSets, TLC

VARIABLES
    input,        \* the file_data handed to DatasetAnalyzer(file_data)
    pc,           \* "start", "load_failed", "idle", a step of analyze_complete, "return", "raised"
    df,           \* self.df
    original_df,  \* self.original_df
    loadError,    \* the ValueError __init__ raised, NoError if none
    locals,       \* analyze_complete's local results so far (key -> value), empty outside a call
    exc,          \* the exception raised by a step of the running/last analyze_complete
    report,       \* the value the last analyze_complete returned
    prev,         \* the value the analyze_complete before that returned
    calls,        \* number of analyze_complete calls that returned
    last,         \* the last direct call of a metric method and its result
    request,      \* the upload request UploadAndAnalyzeView.post is handling, NoRequest if none
    vpc,          \* position of post: "none", "received", "analyzing", "responded"
    records,      \* the DatasetAnalysis rows of the database
    response      \* the Response post returned, NoResponse before that

\* the state of the view; the analyzer's methods leave it alone
vvars == <<request, vpc, records, response>>

vars == <<input, pc, df, original_df, loadError, locals, exc, report, prev, calls, last,
          request, vpc, records, response>>

---------------------------------------------------------------------------
(* Bounds of the model *)

\* most columns of the datasets drawn with every kind of column
MaxCols == 2
\* number of numeric columns of the datasets drawn for the correlation ranking
MaxCorrCols == 6
\* row count of the large datasets (one null cell in more than 20000 cells)
BigRows == 20001
\* calls of analyze_complete on one analyzer
MaxCalls == 2

RowChoices == {1, 2, 4, BigRows}
DupChoices == {0, 1}

---------------------------------------------------------------------------
(* Numbers *)

\* NaN of a float division by zero (numpy warns and yields nan/inf, it does
\* not raise); every quantity it stands in for is >= 0
NaN == -1

Abs(x) == IF x < 0 THEN -x ELSE x

\* n/d rounded to the nearest integer, ties to even (round() of a float on a
\* scaled value), for n >= 0; NaN when d = 0
RoundDiv(n, d) ==
    IF d = 0 THEN NaN
    ELSE LET q == n \div d
             r == n % d
         IN  IF 2 * r < d THEN q
             ELSE IF 2 * r > d THEN q + 1
             ELSE IF q % 2 = 0 THEN q ELSE q + 1

\* round((n / d) * 100, 2), in hundredths of a percent
Pct2(n, d) == RoundDiv(n * 10000, d)

\* round((n / d) * 100, 1), in tenths of a percent
Pct1(n, d) == RoundDiv(n * 1000, d)

\* round(correlation, 3): millionths to thousandths, sign kept
Round3(c) == IF c < 0 THEN -RoundDiv(-c, 1000) ELSE RoundDiv(c, 1000)

SeqSum(s) ==
    LET F[i \in 0..Len(s)] == IF i = 0 THEN 0 ELSE F[i - 1] + s[i]
    IN  F[Len(s)]

\* the subsequence of the indices 1..n that satisfy Test, ascending
SelectIdx(n, Test(_)) ==
    LET F[i \in 0..n] ==
            IF i = 0 THEN <<>>
            ELSE IF Test(i) THEN Append(F[i - 1], i) ELSE F[i - 1]
    IN  F[n]

---------------------------------------------------------------------------
(* DataFrames *)

NumericDtypes == {"int64", "float64", "uint64"}    \* np.number
Column(dtype, nulls, outl, load, const) ==
    [dtype |-> dtype, nulls |-> nulls, outl |-> outl, load |-> load, const |-> const]

\* the placeholder of an attribute that was never assigned
NoDf == [rows |-> 0, dups |-> 0, cols |-> <<>>]

\* The columns read_csv can infer, for a table of `rows` rows: integers
\* (int64; uint64 above the int64 range), numbers with empty cells
\* (float64), text (object, with or without empty cells), True/False (bool).
\* const: the column has fewer than 2 values or no variance (corr() is NaN).
ColumnChoices(rows) ==
    {Column("int64", 0, 0, 900, rows < 2),
     Column("float64", 0, 0, 548, rows < 2),
     Column("float64", 1, 0, 548, rows < 3),
     Column("float64", rows, 0, 0, TRUE),
     Column("object", 0, 0, 0, TRUE),
     Column("object", 1, 0, 0, TRUE),
     Column("bool", 0, 0, 0, TRUE),
     Column("uint64", 0, 0, -549, rows < 2)}
    \cup (IF rows >= 4 THEN {Column("int64", 0, 1, 900, FALSE)} ELSE {})

SeqsUpTo(S, n) == UNION {[1..k -> S] : k \in 1..n}

\* what pandas guarantees of the counts it reports for one table
Realizable(d) ==
    /\ d.rows >= 1 /\ Len(d.cols) >= 1
    /\ d.dups <= d.rows - 1
    /\ \A i \in 1..Len(d.cols) :
         LET c == d.cols[i] IN
         /\ c.nulls <= d.rows
         /\ c.outl > 0 => d.rows - c.nulls >= 4 /\ 2 * c.outl < d.rows - c.nulls
         \* all rows equal: every column is constant
         /\ (d.rows >= 2 /\ d.dups = d.rows - 1) =>
                c.const /\ c.outl = 0 /\ c.nulls \in {0, d.rows}
    \* rows that are null in every column are duplicates of each other
    /\ (d.rows >= 2 /\ \A i \in 1..Len(d.cols) : d.cols[i].nulls = d.rows)
           => d.dups = d.rows - 1

\* tables with every kind of column
MixedTables ==
    {d \in UNION {[rows : {r}, dups : DupChoices, cols : SeqsUpTo(ColumnChoices(r), MaxCols)]
                    : r \in RowChoices} : Realizable(d)}

\* loadings (thousandths) of the numeric columns of the correlation tables:
\* .548*.548 = .300304, .548*.549 = .300852, .549*.549 = .301401, .5*.548 = .274
CorrLoadings == {500, 548, -549}
CorrTables ==
    {[rows |-> 4, dups |-> 0,
      cols |-> [i \in 1..MaxCorrCols |-> Column("float64", 0, 0, l[i], FALSE)]]
        : l \in [1..MaxCorrCols -> CorrLoadings]}

Tables == MixedTables \cup CorrTables

---------------------------------------------------------------------------
(* The loader: DatasetAnalyzer.__init__ *)

\* file_data: bytes or str; bytes may not be valid UTF-8; the text is blank,
\* a header line alone, structurally malformed, or a header and data rows
FileData(type, utf8, shape, table) ==
    [type |-> type, utf8 |-> utf8, shape |-> shape, table |-> table]

HeaderColumns == {<<Column("object", 0, 0, 0, TRUE)>>,
                  <<Column("object", 0, 0, 0, TRUE), Column("object", 0, 0, 0, TRUE)>>}

Inputs ==
    {FileData("bytes", TRUE, "table", t) : t \in Tables}
    \cup {FileData("str", TRUE, "table", t) : t \in {u \in MixedTables : Len(u.cols) = 1 /\ u.rows = 1}}
    \cup {FileData(ty, TRUE, "header", [rows |-> 0, dups |-> 0, cols |-> h])
            : ty \in {"bytes", "str"}, h \in HeaderColumns}
    \cup {FileData(ty, TRUE, sh, NoDf) : ty \in {"bytes", "str"}, sh \in {"blank", "malformed"}}
    \cup {FileData("bytes", FALSE, sh, NoDf) : sh \in {"blank", "malformed"}}
    \cup {FileData("bytes", FALSE, "header", [rows |-> 0, dups |-> 0, cols |-> h]) : h \in HeaderColumns}
    \cup {FileData("bytes", FALSE, "table", t) : t \in {u \in MixedTables : Len(u.cols) = 1 /\ u.rows = 1}}

\* exceptions: class, str(e), and the metric step it was raised in
Exc(cls, msg) == [cls |-> cls, msg |-> msg, step |-> "none"]
NoExc == Exc("none", "")

\* the classes an exception class is an instance of
Bases(cls) ==
    CASE cls = "UnicodeDecodeError" -> {"UnicodeDecodeError", "ValueError", "Exception"}
      [] cls = "EmptyDataError"     -> {"EmptyDataError", "ValueError", "Exception"}
      [] cls = "ParserError"        -> {"ParserError", "ValueError", "Exception"}
      [] cls = "ValueError"         -> {"ValueError", "Exception"}
      [] cls = "ZeroDivisionError"  -> {"ZeroDivisionError", "ArithmeticError", "Exception"}
      [] cls = "MemoryError"        -> {"MemoryError", "Exception"}
      [] OTHER                      -> {}

EmptyMsg == "El archivo CSV está vacío o no contiene datos válidos"

\* variant: a table of one row taken for empty
DfEmptyOffByOne(d) == d.rows <= 1 \/ Len(d.cols) = 0
\* df.empty: any axis of length 0
DfEmpty(d) == d.rows = 0 \/ Len(d.cols) = 0

\* file_data.decode('utf-8') / str(file_data)
Decode(fd) ==
    IF fd.type = "bytes" /\ ~fd.utf8
    THEN Exc("UnicodeDecodeError", "'utf-8' codec can't decode byte")
    ELSE NoExc

\* pd.read_csv(io.StringIO(file_content)): the exception it raises, if any
ReadCsvExc(fd) ==
    CASE fd.shape = "blank"     -> Exc("EmptyDataError", "No columns to parse from file")
      [] fd.shape = "malformed" -> Exc("ParserError", "Error tokenizing data")
      [] OTHER                  -> NoExc

\* the body of the try block: the exception it ends with and the attributes
\* it assigned before that
TryBody(fd) ==
    IF Decode(fd) # NoExc
    THEN [exc |-> Decode(fd), df |-> NoDf, original_df |-> NoDf]
    ELSE IF ReadCsvExc(fd) # NoExc
    THEN [exc |-> ReadCsvExc(fd), df |-> NoDf, original_df |-> NoDf]
    ELSE [exc |-> IF DfEmpty(fd.table) THEN Exc("ValueError", EmptyMsg) ELSE NoExc,
          df |-> fd.table, original_df |-> fd.table]

\* variant: the generic clause ahead of the specific ones
ExceptClausesGenericFirst == <<"Exception", "UnicodeDecodeError", "EmptyDataError", "ParserError">>
\* the except clauses of __init__, in source order
ExceptClauses == <<"UnicodeDecodeError", "EmptyDataError", "ParserError", "Exception">>

\* the first clause that matches the exception
MatchingClause(e) ==
    LET hit == SelectIdx(Len(ExceptClauses), LAMBDA i : ExceptClauses[i] \in Bases(e.cls))
    IN  IF hit = <<>> THEN "none" ELSE ExceptClauses[hit[1]]

\* the ValueError each clause raises: text, the str(e) it carries, the hint
LoadErr(clause, text, detail, hint) ==
    [clause |-> clause, text |-> text, detail |-> detail, hint |-> hint]
NoError == LoadErr("none", "", "", "")

Handle(e) ==
    CASE MatchingClause(e) = "UnicodeDecodeError" ->
            LoadErr("UnicodeDecodeError", "Error de codificación del archivo", e.msg,
                    "Intenta guardar el CSV con codificación UTF-8")
      [] MatchingClause(e) = "EmptyDataError" ->
            LoadErr("EmptyDataError", "El archivo CSV está vacío", "", "")
      [] MatchingClause(e) = "ParserError" ->
            LoadErr("ParserError", "Error al parsear el archivo CSV", e.msg,
                    "Verifica que el formato sea correcto")
      [] MatchingClause(e) = "Exception" ->
            LoadErr("Exception", "Error al procesar el archivo", e.msg, "")
      [] OTHER -> NoError

\* the kind of load error a raised ValueError is, by the text that opens it
Kind(err) ==
    CASE err.text = "Error de codificación del archivo" -> "Encoding"
      [] err.text = "El archivo CSV está vacío"          -> "Empty"
      [] err.text = "Error al parsear el archivo CSV"    -> "Malformed"
      [] err.text = "Error al procesar el archivo"       -> "Unknown"
      [] OTHER                                           -> "none"

---------------------------------------------------------------------------
(* The metric methods.  Columns are named by their position. *)

NCols(d) == Len(d.cols)

\* self.df.select_dtypes(include=[np.number]).columns
numeric_cols(d) == SelectIdx(NCols(d), LAMBDA i : d.cols[i].dtype \in NumericDtypes)
\* self.df.select_dtypes(include=['object']).columns
ObjectCols(d) == SelectIdx(NCols(d), LAMBDA i : d.cols[i].dtype = "object")
\* self.df.select_dtypes(include=['datetime64']).columns
DatetimeCols(d) == SelectIdx(NCols(d), LAMBDA i : d.cols[i].dtype = "datetime64")
\* self.df[col].dtype in ['int64', 'float64']
IsInt64OrFloat64(c) == c.dtype \in {"int64", "float64"}

\* get_basic_info (file_size, the memory footprint, is not tracked)
get_basic_info(d) ==
    [total_rows    |-> d.rows,
     total_columns |-> NCols(d),
     data_types    |-> [numeric  |-> Len(numeric_cols(d)),
                        object   |-> Len(ObjectCols(d)),
                        datetime |-> Len(DatetimeCols(d))],
     column_names  |-> [i \in 1..NCols(d) |-> i],
     dtypes        |-> [i \in 1..NCols(d) |-> d.cols[i].dtype]]

\* self.df.isnull().sum().sum()
total_missing(d) == SeqSum([i \in 1..NCols(d) |-> d.cols[i].nulls])
\* variant: the row count taken for the cell count
total_cells_rows_only(d) == d.rows
\* self.df.shape[0] * self.df.shape[1]
total_cells(d) == d.rows * NCols(d)

\* analyze_missing_data
analyze_missing_data(d) ==
    LET withMissing == SelectIdx(NCols(d), LAMBDA i : d.cols[i].nulls > 0) IN
    [columns_with_missing |->
        [k \in 1..Len(withMissing) |->
            [column        |-> withMissing[k],
             missing_count |-> d.cols[withMissing[k]].nulls,
             percentage    |-> Pct2(d.cols[withMissing[k]].nulls, d.rows)]],
     total_missing_percentage |-> Pct2(total_missing(d), total_cells(d)),
     total_missing_values     |-> total_missing(d)]

\* analyze_duplicates (columns_contributing, a hint no other method reads,
\* is not tracked)
analyze_duplicates(d) ==
    [total_duplicates |-> d.dups,
     percentage       |-> Pct2(d.dups, d.rows)]

\* variant: a consistency score below the rule's 80
consistency_score_low == 850 - 100
\* consistency_score, in tenths
consistency_score == 850
\* validity when there is no numeric column, in tenths
default_validity == 950

\* calculate_data_quality; the tables hold no infinite value, so a column's
\* invalid_count is its null count
calculate_data_quality(d) ==
    LET num   == numeric_cols(d)
        valid == SeqSum([k \in 1..Len(num) |-> d.rows - d.cols[num[k]].nulls])
    IN
    [completeness |-> Pct1(total_cells(d) - total_missing(d), total_cells(d)),
     consistency  |-> consistency_score,
     validity     |-> IF Len(num) > 0 THEN Pct1(valid, d.rows * Len(num))
                      ELSE default_validity,
     uniqueness   |-> Pct1(d.rows - d.dups, d.rows)]

\* detect_outliers: c.outl is len(outliers) of the column
detect_outliers(d) ==
    LET num  == numeric_cols(d)
        hit  == SelectIdx(Len(num), LAMBDA k : /\ IsInt64OrFloat64(d.cols[num[k]])
                                               /\ d.cols[num[k]].outl > 0)
        info == [k \in 1..Len(hit) |->
                    [column        |-> num[hit[k]],
                     outlier_count |-> d.cols[num[hit[k]]].outl,
                     percentage    |-> Pct2(d.cols[num[hit[k]]].outl, d.rows)]]
    IN
    [columns_with_outliers    |-> info,
     total_outlier_percentage |-> SeqSum([k \in 1..Len(info) |-> info[k].percentage])]

\* corr_matrix.iloc[i, j] of two numeric columns: NaN (a column without
\* variance), else the value in millionths
CorrIsNaN(d, a, b) == d.cols[a].const \/ d.cols[b].const
CorrValue(d, a, b) == d.cols[a].load * d.cols[b].load

\* abs(correlation) > 0.3, in millionths
CorrThreshold == 300000
\* correlations[:10]
TopN == 10

\* variant: the threshold test left out
QualifiesAnyValue(d, a, b) == ~CorrIsNaN(d, a, b)
\* not np.isnan(correlation) and abs(correlation) > 0.3
Qualifies(d, a, b) == ~CorrIsNaN(d, a, b) /\ Abs(CorrValue(d, a, b)) > CorrThreshold

\* for i in range(k): for j in range(i+1, k): the pairs in iteration order
PairSeq(k) ==
    LET F[i \in 0..k] ==
            IF i = 0 THEN <<>>
            ELSE F[i - 1] \o [j \in 1..(k - i) |-> <<i, i + j>>]
    IN  F[k]

\* variant: an entry goes ahead of the entries of equal key (an unstable sort)
SortInsertBeforeTies(sorted, e) ==
    LET before == SelectSeq(sorted, LAMBDA x : Abs(x.correlation) > Abs(e.correlation))
        after  == SelectSeq(sorted, LAMBDA x : Abs(x.correlation) <= Abs(e.correlation))
    IN  before \o <<e>> \o after
\* sorted(..., key=lambda x: abs(x['correlation']), reverse=True) is stable:
\* an entry goes behind every entry whose key is at least its own
SortInsert(sorted, e) ==
    LET before == SelectSeq(sorted, LAMBDA x : Abs(x.correlation) >= Abs(e.correlation))
        after  == SelectSeq(sorted, LAMBDA x : Abs(x.correlation) < Abs(e.correlation))
    IN  before \o <<e>> \o after

SortedByAbsDesc(s) ==
    LET F[i \in 0..Len(s)] == IF i = 0 THEN <<>> ELSE SortInsert(F[i - 1], s[i])
    IN  F[Len(s)]

Head10(s) == IF Len(s) <= TopN THEN s ELSE SubSeq(s, 1, TopN)

\* calculate_correlations
calculate_correlations(d) ==
    LET num == numeric_cols(d) IN
    IF Len(num) < 2 THEN [correlations |-> <<>>]
    ELSE
    LET pairs == SelectSeq(PairSeq(Len(num)),
                           LAMBDA p : Qualifies(d, num[p[1]], num[p[2]]))
        correlations ==
            [k \in 1..Len(pairs) |->
                [var1 |-> num[pairs[k][1]],
                 var2 |-> num[pairs[k][2]],
                 correlation |-> Round3(CorrValue(d, num[pairs[k][1]], num[pairs[k][2]]))]]
    IN  [correlations |-> Head10(SortedByAbsDesc(correlations))]

\* get_column_statistics: the branch taken and the null count (the
\* descriptive statistics of the values are not tracked)
get_column_statistics(d) ==
    [i \in 1..NCols(d) |->
        [type          |-> IF IsInt64OrFloat64(d.cols[i]) THEN "numeric" ELSE "categorical",
         missing_count |-> d.cols[i].nulls]]

---------------------------------------------------------------------------
(* generate_recommendations *)

Rec(issue, text, value, action) ==
    [issue |-> issue, description |-> [text |-> text, value |-> value], action |-> action]

RecIf(cond, rec) == IF cond THEN <<rec>> ELSE <<>>

RecMissing(md) ==
    Rec("Valores faltantes elevados", "El dataset tiene {}% de valores faltantes",
        md.total_missing_percentage,
        "Implementar estrategias de imputación o eliminación de registros")
RecDuplicates(du) ==
    Rec("Datos duplicados", "Se encontraron {} registros duplicados",
        du.total_duplicates, "Eliminar o consolidar registros duplicados")
RecOutliers(ou) ==
    Rec("Valores atípicos detectados", "Se detectaron outliers en {} columnas",
        Len(ou.columns_with_outliers),
        "Revisar y decidir tratamiento de valores atípicos")
RecConsistency(q) ==
    Rec("Consistencia baja", "Consistencia de datos: {}%", q.consistency,
        "Revisar formato y tipos de datos")
RecNormalize ==
    Rec("Normalización de datos", "Considerar normalización para columnas numéricas", 0,
        "Aplicar StandardScaler o MinMaxScaler")
RecEncoding ==
    Rec("Encoding de variables categóricas", "Variables categóricas requieren encoding para ML", 0,
        "Aplicar One-Hot Encoding o Label Encoding")

\* variant: the duplicates rule as the elif of the missing-values rule
CriticalRecsElif(d) ==
    IF analyze_missing_data(d).total_missing_percentage > 1000
    THEN <<RecMissing(analyze_missing_data(d))>>
    ELSE RecIf(analyze_duplicates(d).total_duplicates > 0, RecDuplicates(analyze_duplicates(d)))
\* the two critical rules: > 10 (percent, in hundredths), > 0
CriticalRecs(d) ==
    RecIf(analyze_missing_data(d).total_missing_percentage > 1000, RecMissing(analyze_missing_data(d)))
    \o RecIf(analyze_duplicates(d).total_duplicates > 0, RecDuplicates(analyze_duplicates(d)))

\* the two moderate rules: > 5 (percent, in hundredths), < 80 (in tenths)
ModerateRecs(d) ==
    RecIf(detect_outliers(d).total_outlier_percentage > 500, RecOutliers(detect_outliers(d)))
    \o RecIf(calculate_data_quality(d).consistency < 800, RecConsistency(calculate_data_quality(d)))

\* the two optional rules
OptionalRecs(d) ==
    RecIf(Len(numeric_cols(d)) > 0, RecNormalize)
    \o RecIf(Len(ObjectCols(d)) > 0, RecEncoding)

generate_recommendations(d) ==
    [critical |-> CriticalRecs(d), moderate |-> ModerateRecs(d), optional |-> OptionalRecs(d)]

---------------------------------------------------------------------------
(* analyze_complete and the calls of one analyzer *)

\* the metric steps of analyze_complete in source order, and the local each
\* result is bound to
Steps == <<"get_basic_info", "analyze_missing_data", "analyze_duplicates",
           "calculate_data_quality", "detect_outliers", "calculate_correlations",
           "get_column_statistics", "generate_recommendations">>
LocalOf == <<"basic_info", "missing_data", "duplicates", "data_quality",
             "outliers", "correlations", "column_stats", "recommendations">>
StepNames == {Steps[k] : k \in 1..Len(Steps)}
StepIndex(m) == CHOOSE k \in 1..Len(Steps) : Steps[k] = m

\* the value a metric method returns
Method(m, d) ==
    CASE m = "get_basic_info"           -> get_basic_info(d)
      [] m = "analyze_missing_data"     -> analyze_missing_data(d)
      [] m = "analyze_duplicates"       -> analyze_duplicates(d)
      [] m = "calculate_data_quality"   -> calculate_data_quality(d)
      [] m = "detect_outliers"          -> detect_outliers(d)
      [] m = "calculate_correlations"   -> calculate_correlations(d)
      [] m = "get_column_statistics"    -> get_column_statistics(d)
      [] m = "generate_recommendations" -> generate_recommendations(d)

\* The exception a metric method raises on d.  The divisions by the row
\* and cell counts have a numpy operand and yield nan on 0; the one
\* division of two Python ints, len(outliers) / len(self.df), raises.
MethodRaises(m, d) ==
    IF /\ m \in {"detect_outliers", "generate_recommendations"}
       /\ d.rows = 0
       /\ \E i \in 1..NCols(d) : IsInt64OrFloat64(d.cols[i]) /\ d.cols[i].outl > 0
    THEN Exc("ZeroDivisionError", "division by zero")
    ELSE NoExc

\* variant: analyze_duplicates dropping the duplicated rows in place
DfAfterDropDuplicates(m, d) ==
    IF m = "analyze_duplicates" THEN [d EXCEPT !.rows = d.rows - d.dups, !.dups = 0] ELSE d
\* self.df after a metric method ran: no method assigns to it or changes it
\* in place
DfAfter(m, d) == d

NoLocals == [k \in {} |-> 0]
NoReport == [analysis_status |-> "none"]
NoCall == [method |-> "none", result |-> 0]

\* the dict analyze_complete returns when every step returned
SuccessReport(l) ==
    [basic_info         |-> l["basic_info"],
     missing_data       |-> l["missing_data"],
     duplicates         |-> l["duplicates"],
     data_quality       |-> l["data_quality"],
     outliers           |-> l["outliers"],
     correlation_matrix |-> l["correlations"].correlations,
     column_statistics  |-> l["column_stats"],
     recommendations    |-> l["recommendations"],
     analysis_status    |-> "success"]

\* variant: the error keys added to the results gathered so far
ErrorReportWithPartial(e, l) ==
    l @@ [analysis_status |-> "error", error_message |-> e.msg]
\* the dict its except clause returns
ErrorReport(e, l) ==
    [analysis_status |-> "error", error_message |-> e.msg]

\* the analyzer before DatasetAnalyzer(file_data) ran
InitState ==
    /\ pc = "start"
    /\ df = NoDf
    /\ original_df = NoDf
    /\ loadError = NoError
    /\ locals = NoLocals
    /\ exc = NoExc
    /\ report = NoReport
    /\ prev = NoReport
    /\ calls = 0
    /\ last = NoCall

\* no request: the analyzer is used on its own
NoRequest == [valid |-> FALSE]
NoResponse == [status |-> 0]
Standalone ==
    /\ request = NoRequest
    /\ vpc = "none"
    /\ records = <<>>
    /\ response = NoResponse

Init == input \in Inputs /\ InitState /\ Standalone

\* DatasetAnalyzer(file_data)
Load ==
    /\ pc = "start"
    /\ LET body == TryBody(input) IN
        /\ df' = body.df
        /\ original_df' = body.original_df
        /\ IF body.exc = NoExc
           THEN pc' = "idle" /\ loadError' = NoError
           ELSE pc' = "load_failed" /\ loadError' = Handle(body.exc)
    /\ UNCHANGED <<input, locals, exc, report, prev, calls, last>>
    /\ UNCHANGED vvars

\* a direct call of one metric method on the analyzer
CallMetric(m) ==
    /\ pc = "idle"
    /\ last' = IF MethodRaises(m, df) = NoExc
               THEN [method |-> m, result |-> Method(m, df)]
               ELSE [method |-> m, result |-> MethodRaises(m, df)]
    /\ df' = DfAfter(m, df)
    /\ UNCHANGED <<input, pc, original_df, loadError, locals, exc, report, prev, calls>>
    /\ UNCHANGED vvars

\* analyzer.analyze_complete() is entered (the caller lets go of the result
\* of its last direct call)
CallAnalyzeComplete ==
    /\ pc = "idle"
    /\ calls < MaxCalls
    /\ pc' = Steps[1]
    /\ locals' = NoLocals
    /\ exc' = NoExc
    /\ last' = NoCall
    /\ UNCHANGED <<input, df, original_df, loadError, report, prev, calls>>
    /\ UNCHANGED vvars

\* except Exception as e: return {...}; an exception that is no Exception
\* leaves analyze_complete
Except(e) ==
    /\ exc' = [e EXCEPT !.step = pc]
    /\ locals' = NoLocals
    /\ IF "Exception" \in Bases(e.cls)
       THEN /\ pc' = "idle"
            /\ report' = ErrorReport(e, locals)
            /\ prev' = report
            /\ calls' = calls + 1
       ELSE /\ pc' = "raised"
            /\ UNCHANGED <<report, prev, calls>>
    /\ UNCHANGED <<input, df, original_df, loadError, last>>

\* one metric step of analyze_complete
RunStep ==
    /\ pc \in StepNames
    /\ IF MethodRaises(pc, df) # NoExc
       THEN Except(MethodRaises(pc, df))
       ELSE /\ locals' = locals @@ (LocalOf[StepIndex(pc)] :> Method(pc, df))
            /\ df' = DfAfter(pc, df)
            /\ pc' = IF StepIndex(pc) < Len(Steps) THEN Steps[StepIndex(pc) + 1] ELSE "return"
            /\ UNCHANGED <<input, original_df, loadError, exc, report, prev, calls, last>>
    /\ UNCHANGED vvars

\* the return of analyze_complete's try block
Return ==
    /\ pc = "return"
    /\ report' = SuccessReport(locals)
    /\ prev' = report
    /\ calls' = calls + 1
    /\ pc' = "idle"
    /\ locals' = NoLocals
    /\ UNCHANGED <<input, df, original_df, loadError, exc, last>>
    /\ UNCHANGED vvars

\* a metric step fails for a reason outside the data (MemoryError)
Fault ==
    /\ pc \in StepNames
    /\ Except(Exc("MemoryError", "out of memory"))
    /\ UNCHANGED vvars

Next ==
    \/ Load
    \/ \E m \in StepNames : CallMetric(m)
    \/ CallAnalyzeComplete
    \/ RunStep
    \/ Return

Spec == Init /\ [][Next]_vars

\* the same analyzer on one-column input, where any step may also fail
FaultInputs == {i \in Inputs : i.shape = "table" => NCols(i.table) = 1}
InitFault == Init /\ input \in FaultInputs
NextFault == Next \/ Fault

SpecFault == InitFault /\ [][NextFault]_vars

---------------------------------------------------------------------------
(* Tables with explicit cells.  A cell is a number or NaN (an empty cell   *)
(* of a numeric column).  The counts the metric methods read (null cells,  *)
(* duplicated rows, rows the IQR filter selects) are computed from the     *)
(* cells as pandas computes them.                                          *)

\* most cells of a one-column table
MaxSeries == 6
\* most rows of a two-column table
MaxPairRows == 3

CellValues == {1, 2, 3, 4, 5, 100}
PairCellValues == {1, 2}

\* the values of a column without its empty cells (quantile skips NaN)
dropna(vals) == SelectSeq(vals, LAMBDA v : v # NaN)

\* s, ascending, with x inserted ahead of the first element > x
InsertAsc(s, x) ==
    LET first == SelectIdx(Len(s), LAMBDA i : s[i] > x)
    IN  IF first = <<>> THEN Append(s, x)
        ELSE SubSeq(s, 1, first[1] - 1) \o <<x>> \o SubSeq(s, first[1], Len(s))

\* the values in ascending order
SortAsc(s) ==
    LET F[i \in 0..Len(s)] == IF i = 0 THEN <<>> ELSE InsertAsc(F[i - 1], s[i])
    IN  F[Len(s)]

\* Series.quantile(q4 / 4), in quarters: linear interpolation between the
\* two order statistics around position (n - 1) * q; NaN without values
quantile(vals, q4) ==
    LET s  == SortAsc(dropna(vals))
        h  == (Len(s) - 1) * q4
        lo == (h \div 4) + 1
        r  == h % 4
    IN  IF Len(s) = 0 THEN NaN
        ELSE IF r = 0 THEN 4 * s[lo]
        ELSE 4 * s[lo] + r * (s[lo + 1] - s[lo])

\* in quarters
Q1(vals) == quantile(vals, 1)
Q3(vals) == quantile(vals, 3)
IQR(vals) == Q3(vals) - Q1(vals)
\* Q1 - 1.5 * IQR and Q3 + 1.5 * IQR, in eighths
lower_bound(vals) == 2 * Q1(vals) - 3 * IQR(vals)
upper_bound(vals) == 2 * Q3(vals) + 3 * IQR(vals)

\* the rows of self.df[(self.df[col] < lower_bound) | (self.df[col] >
\* upper_bound)]: a comparison with NaN, cell or bound, is False
outliers(vals) ==
    SelectIdx(Len(vals), LAMBDA r :
        /\ vals[r] # NaN
        /\ dropna(vals) # <<>>
        /\ \/ 8 * vals[r] < lower_bound(vals)
           \/ 8 * vals[r] > upper_bound(vals))

\* a column of a table with explicit cells; as read_csv infers a dtype, an
\* integer column is int64 (uint64 when a value is above the int64 range,
\* the cells then count in a unit that large), a column with an empty cell
\* or a decimal point float64.  The loading is not drawn: no pair of these
\* columns is correlated by the methods called on these tables.
ValueColumn(dtype, vals) ==
    [dtype |-> dtype,
     nulls |-> Len(vals) - Len(dropna(vals)),
     outl  |-> Len(outliers(vals)),
     load  |-> 0,
     const |-> Cardinality({vals[r] : r \in 1..Len(vals)} \ {NaN}) < 2,
     vals  |-> vals]

\* rows a and b hold the same cells (an empty cell equals an empty cell)
SameRow(cols, a, b) == \A c \in 1..Len(cols) : cols[c].vals[a] = cols[c].vals[b]

\* variant: duplicated(subset=...) on the first column alone
duplicated_first_column(cols, rows) ==
    SelectIdx(rows, LAMBDA b : \E a \in 1..(b - 1) : cols[1].vals[a] = cols[1].vals[b])
\* self.df.duplicated(): the rows that repeat an earlier row
duplicated(cols, rows) ==
    SelectIdx(rows, LAMBDA b : \E a \in 1..(b - 1) : SameRow(cols, a, b))

ValueTable(cols) ==
    [rows |-> Len(cols[1].vals),
     dups |-> Len(duplicated(cols, Len(cols[1].vals))),
     cols |-> cols]

DtypesOf(vals) ==
    IF dropna(vals) = vals THEN {"int64", "float64", "uint64"} ELSE {"float64"}

Reverse(s) == [i \in 1..Len(s) |-> s[Len(s) + 1 - i]]

\* the series of n cells in ascending order, empty cells last
AscendingSeries(n) ==
    LET Key(v) == IF v = NaN THEN 1000 ELSE v
        F[k \in 0..n] ==
            IF k = 0 THEN {<<>>}
            ELSE {Append(p[1], p[2]) :
                    p \in {q \in F[k - 1] \X (CellValues \cup {NaN}) :
                             k = 1 \/ Key(q[1][k - 1]) <= Key(q[2])}}
    IN  F[n]

\* one-column tables: every multiset of up to MaxSeries cells, in ascending
\* and in descending order
SeriesChoices ==
    LET asc == UNION {AscendingSeries(n) : n \in 1..MaxSeries}
    IN  asc \cup {Reverse(s) : s \in asc}
SeriesTables ==
    {ValueTable(<<ValueColumn(p[2], p[1])>>) :
        p \in {q \in SeriesChoices \X NumericDtypes : q[2] \in DtypesOf(q[1])}}

\* two-column tables: every table of up to MaxPairRows rows
PairTables ==
    UNION {{ValueTable(<<ValueColumn(IF dropna(a) = a THEN "int64" ELSE "float64", a),
                         ValueColumn(IF dropna(b) = b THEN "int64" ELSE "float64", b)>>) :
              a \in [1..n -> PairCellValues \cup {NaN}],
              b \in [1..n -> PairCellValues \cup {NaN}]}
            : n \in 1..MaxPairRows}

ValueInputs == {FileData("bytes", TRUE, "table", t) : t \in SeriesTables \cup PairTables}

\* the methods called on these tables: all but calculate_correlations
ValueMethods == StepNames \ {"calculate_correlations"}

InitValues == input \in ValueInputs /\ InitState /\ Standalone
NextValues ==
    \/ Load
    \/ \E m \in ValueMethods : CallMetric(m)

SpecValues == InitValues /\ [][NextValues]_vars

---------------------------------------------------------------------------
(* UploadAndAnalyzeView.post (data_analysis/views.py): one upload request  *)
(* handled against a database of DatasetAnalysis rows.                     *)

avars == <<input, pc, df, original_df, loadError, locals, exc, report, prev, calls, last>>

\* most rows the database holds before the request
MaxExisting == 1

\* uploaded_file.name, as its characters
FileNames ==
    {<<"d", ".", "c", "s", "v">>, <<".", "c", "s", "v">>, <<"c", "s", "v">>,
     <<"d", ".", "C", "S", "V">>, <<"d", ".", "c", "s", "v", ".", "t">>}
CsvSuffix == <<".", "c", "s", "v">>
\* name.endswith(suffix)
endswith(name, suffix) ==
    /\ Len(name) >= Len(suffix)
    /\ SubSeq(name, Len(name) - Len(suffix) + 1, Len(name)) = suffix

\* the 'name' field of the form, when it is sent
GivenName == <<"n">>

\* None, the analysis_id of a response without a saved row (ids start at 1)
None == 0

\* the content of the uploaded file: bytes, of a one-row one-column table
\* or of no table
ViewFiles ==
    {i \in FaultInputs : i.type = "bytes" /\ (i.shape = "table" => i.table.rows = 1)}
NoFile == FileData("none", TRUE, "none", NoDf)

\* A request: whether FileUploadSerializer accepts request.data, whether
\* request.FILES holds 'file' (read apart from the serializer's data), the
\* file's name and content, whether 'name' was sent; with it are drawn what
\* the request meets: whether uploaded_file.read() raises, whether
\* DatasetAnalysis.objects.create raises, and the rows already stored.
Requests ==
    [valid : BOOLEAN, has_file : BOOLEAN, file_name : FileNames, name_given : BOOLEAN,
     content : ViewFiles, read_fails : BOOLEAN, create_fails : BOOLEAN,
     existing : 0..MaxExisting]

\* a DatasetAnalysis row (upload_date and file_size are not tracked)
Record(id, name, file_name, analysis_result) ==
    [id |-> id, name |-> name, file_name |-> file_name, analysis_result |-> analysis_result]
OldRecords(n) == [k \in 1..n |-> Record(k, <<"o">>, <<"o", ".", "c", "s", "v">>, NoReport)]

\* the 400 responses of the three checks, in source order; NoResponse when
\* the request passes them
Rejection(rq) ==
    IF ~rq.valid
    THEN [status |-> 400, error |-> "Archivo inválido"]
    ELSE IF ~rq.has_file
    THEN [status |-> 400, error |-> "No se proporcionó archivo"]
    ELSE IF ~endswith(rq.file_name, CsvSuffix)
    THEN [status |-> 400, error |-> "Solo se admiten archivos CSV"]
    ELSE NoResponse

\* variant: the analysis status not looked at
AnalysisFailedNever(r) == FALSE
\* analysis_result.get('analysis_status') == 'error'
AnalysisFailed(r) == r.analysis_status = "error"

InitView ==
    /\ request \in Requests
    /\ vpc = "received"
    /\ records = OldRecords(request.existing)
    /\ response = NoResponse
    /\ input = NoFile
    /\ InitState

\* a request that fails one of the three checks is answered 400
Reject ==
    /\ vpc = "received"
    /\ Rejection(request) # NoResponse
    /\ response' = Rejection(request)
    /\ vpc' = "responded"
    /\ UNCHANGED <<request, records>>
    /\ UNCHANGED avars

\* file_content = uploaded_file.read(); an exception here reaches the outer
\* except clause
ReadFile ==
    /\ vpc = "received"
    /\ Rejection(request) = NoResponse
    /\ IF request.read_fails
       THEN /\ response' = [status |-> 500, error |-> "Error interno del servidor",
                            details |-> "read failed"]
            /\ vpc' = "responded"
            /\ UNCHANGED input
       ELSE /\ input' = request.content
            /\ vpc' = "analyzing"
            /\ UNCHANGED response
    /\ UNCHANGED <<request, records>>
    /\ UNCHANGED <<pc, df, original_df, loadError, locals, exc, report, prev, calls, last>>

\* DatasetAnalyzer(file_content) raised: the inner except clause answers 500
\* with str(analyzer_error).  (analyze_complete lets no Exception escape.)
RespondAnalyzerError ==
    /\ vpc = "analyzing"
    /\ pc = "load_failed"
    /\ response' = [status |-> 500, error |-> "Error al analizar el archivo",
                    details |-> loadError]
    /\ vpc' = "responded"
    /\ UNCHANGED <<request, records>>
    /\ UNCHANGED avars

\* analyze_complete returned an error report: 500 with its error_message
RespondAnalysisError ==
    /\ vpc = "analyzing"
    /\ pc = "idle"
    /\ calls = 1
    /\ AnalysisFailed(report)
    /\ response' = [status |-> 500, error |-> "Error al analizar el archivo",
                    details |-> report.error_message]
    /\ vpc' = "responded"
    /\ UNCHANGED <<request, records>>
    /\ UNCHANGED avars

\* DatasetAnalysis.objects.create(...) in its own try, then the 200
\* response; dataset_analysis is bound only if create returned
SaveAndRespond ==
    /\ vpc = "analyzing"
    /\ pc = "idle"
    /\ calls = 1
    /\ ~AnalysisFailed(report)
    /\ LET id   == Len(records) + 1
           name == IF request.name_given THEN GivenName ELSE request.file_name
       IN  /\ records' = IF request.create_fails THEN records
                         ELSE Append(records, Record(id, name, request.file_name, report))
           /\ response' = [status      |-> 200,
                           analysis_id |-> IF request.create_fails THEN None ELSE id,
                           analysis    |-> report,
                           message     |-> "Análisis completado exitosamente"]
    /\ vpc' = "responded"
    /\ UNCHANGED request
    /\ UNCHANGED avars

\* post: the checks, the read, the analyzer's construction and its one
\* analyze_complete call (any step of which may fail), the answer
NextView ==
    \/ Reject
    \/ ReadFile
    \/ vpc = "analyzing" /\ Load
    \/ vpc = "analyzing" /\ calls = 0 /\ CallAnalyzeComplete
    \/ vpc = "analyzing" /\ RunStep
    \/ vpc = "analyzing" /\ Return
    \/ vpc = "analyzing" /\ Fault
    \/ RespondAnalyzerError
    \/ RespondAnalysisError
    \/ SaveAndRespond

SpecView == InitView /\ [][NextView]_vars

---------------------------------------------------------------------------
(* Properties *)

Loaded == pc \notin {"start", "load_failed"}
Succeeded == report.analysis_status = "success"
Called(m) == last.method = m

\* C1: when a metric step of analyze_complete raises, no later step runs
\* and nothing escapes: the call is over, and what it returned is exactly
\* {analysis_status: "error", error_message: str(e)}, with no metric key.
C1_AllOrNothing ==
    exc # NoExc =>
        /\ pc = "idle"
        /\ locals = NoLocals
        /\ DOMAIN report = {"analysis_status", "error_message"}
        /\ report.analysis_status = "error"
        /\ report.error_message = exc.msg

\* a step raised after five steps had returned, and the error record came back
C1_Witness ==
    /\ exc # NoExc
    /\ exc.step = "calculate_correlations"
    /\ pc = "idle"
    /\ report.analysis_status = "error"

\* the input is decodable CSV text with a header and at least one data row
WellFormedInput ==
    /\ input.type = "bytes" => input.utf8
    /\ input.shape = "table"
    /\ input.table.rows >= 1
    /\ NCols(input.table) >= 1

\* C2: well-formed CSV with >= 1 row and >= 1 column is accepted by the
\* loader, no metric method raises on it, no row or cell count it divides
\* by is 0, and every analyze_complete on it returns status "success".
C2_WellFormedSucceeds ==
    /\ Loaded => /\ loadError = NoError
                 /\ df.rows > 0
                 /\ df.rows * NCols(df) > 0
                 /\ \A m \in StepNames : MethodRaises(m, df) = NoExc
    /\ WellFormedInput =>
          /\ pc # "load_failed"
          /\ pc # "raised"
          /\ exc = NoExc
          /\ calls > 0 => Succeeded

\* a one-row, one-column table was loaded and analysed with success
C2_Witness ==
    /\ WellFormedInput
    /\ input.table.rows = 1
    /\ NCols(input.table) = 1
    /\ calls = 1
    /\ Succeeded

\* C3: every input whose parse gives zero rows or zero columns (blank
\* content, a header line alone) fails with the Empty kind of load error.
C3_ZeroRowsOrColsIsEmptyKind ==
    (pc = "load_failed" /\ Decode(input) = NoExc /\ input.shape \in {"blank", "header"})
        => Kind(loadError) = "Empty"

\* C4: bytes that are not valid UTF-8 fail with the Encoding kind of load
\* error, carrying the decoder's message and the re-save-as-UTF-8 hint, and
\* yield no dataset.
C4_NonUtf8IsEncoding ==
    (input.type = "bytes" /\ ~input.utf8 /\ pc # "start") =>
        /\ pc = "load_failed"
        /\ Kind(loadError) = "Encoding"
        /\ loadError.detail = Decode(input).msg
        /\ loadError.hint = "Intenta guardar el CSV con codificación UTF-8"
        /\ df = NoDf
        /\ original_df = NoDf

\* bytes that would parse to a table, were they decodable, were rejected
C4_Witness ==
    /\ pc = "load_failed"
    /\ input.type = "bytes"
    /\ ~input.utf8
    /\ input.shape = "table"

\* the missing-data reports of the state: of a direct call and of the report
MissingReportsSatisfy(P(_)) ==
    /\ (Loaded /\ Called("analyze_missing_data")) => P(last.result)
    /\ (Loaded /\ Succeeded) => P(report.missing_data)

\* C5 as stated: total_missing_percentage (hundredths) lies in [0,100] and
\* is 0 if and only if the dataset has no null cell.
C5_ZeroIffNoNull ==
    MissingReportsSatisfy(LAMBDA md :
        /\ md.total_missing_percentage \in 0..10000
        /\ md.total_missing_percentage = 0 <=> total_missing(df) = 0)

\* C5 amended: total_missing_percentage lies in [0,100]; it is 0 when the
\* dataset has no null cell and whenever fewer than 1 cell in 20000 is null
\* (the percentage rounds to 0.00), and it is above 0 whenever more than 1
\* cell in 20000 is null; total_missing_values is 0 iff there is no null cell.
C5_ZeroIffRoundsToZero ==
    MissingReportsSatisfy(LAMBDA md :
        /\ md.total_missing_percentage \in 0..10000
        /\ total_missing(df) = 0 => md.total_missing_percentage = 0
        /\ 20000 * total_missing(df) < df.rows * NCols(df) => md.total_missing_percentage = 0
        /\ md.total_missing_percentage = 0 => 20000 * total_missing(df) <= df.rows * NCols(df)
        /\ md.total_missing_values = 0 <=> total_missing(df) = 0)

\* a dataset with a null cell was reported 0.00 percent missing
C5_Witness ==
    /\ Loaded
    /\ Called("analyze_missing_data")
    /\ total_missing(df) > 0
    /\ last.result.total_missing_percentage = 0

\* the correlation lists of the state: of a direct call and of the report
CorrelationListsSatisfy(P(_)) ==
    /\ (Loaded /\ Called("calculate_correlations")) => P(last.result.correlations)
    /\ (Loaded /\ Succeeded) => P(report.correlation_matrix)

\* C6 as stated: the reported (3-decimal) correlation of every entry is in
\* absolute value strictly greater than 0.3.
C6_ReportedAboveThreshold ==
    CorrelationListsSatisfy(LAMBDA L :
        \A k \in 1..Len(L) : Abs(L[k].correlation) > 300)

\* C6 amended: every entry is a pair of numeric columns whose correlation is
\* defined and in absolute value strictly greater than 0.3 before rounding;
\* the reported 3-decimal value is in absolute value at least 0.3 (a
\* correlation in (0.3, 0.3005) is reported as 0.3).
C6_UnroundedAboveThreshold ==
    CorrelationListsSatisfy(LAMBDA L :
        \A k \in 1..Len(L) :
            /\ L[k].var1 < L[k].var2
            /\ df.cols[L[k].var1].dtype \in NumericDtypes
            /\ df.cols[L[k].var2].dtype \in NumericDtypes
            /\ ~CorrIsNaN(df, L[k].var1, L[k].var2)
            /\ Abs(CorrValue(df, L[k].var1, L[k].var2)) > 300000
            /\ Abs(L[k].correlation) >= 300)

\* a report lists a pair with the reported correlation 0.3
C6_Witness ==
    /\ Loaded
    /\ Succeeded
    /\ \E k \in 1..Len(report.correlation_matrix) :
          Abs(report.correlation_matrix[k].correlation) = 300

\* the qualifying pairs of self.df, by column name
QualifyingPairs ==
    {p \in {q \in (1..NCols(df)) \X (1..NCols(df)) : q[1] < q[2]} :
        /\ df.cols[p[1]].dtype \in NumericDtypes
        /\ df.cols[p[2]].dtype \in NumericDtypes
        /\ ~CorrIsNaN(df, p[1], p[2])
        /\ Abs(CorrValue(df, p[1], p[2])) > 300000}

\* iteration order of the pairs: i ascending, then j ascending
EnumeratedBefore(p, q) == p[1] < q[1] \/ (p[1] = q[1] /\ p[2] < q[2])

\* p ranks ahead of q under the key K: larger key, or equal key and
\* enumerated first
RanksAhead(p, q, K(_)) == K(p) > K(q) \/ (K(p) = K(q) /\ EnumeratedBefore(p, q))

\* L is the first TopN of the qualifying pairs ranked by K
IsTopRanked(L, K(_)) ==
    LET pairOf(k) == <<L[k].var1, L[k].var2>> IN
    /\ Len(L) <= 10
    /\ \A k \in 1..Len(L) : pairOf(k) \in QualifyingPairs
    /\ \A k, l \in 1..Len(L) : k < l => RanksAhead(pairOf(k), pairOf(l), K)
    /\ \A q \in QualifyingPairs :
          (\A k \in 1..Len(L) : pairOf(k) # q) =>
              /\ Len(L) = 10
              /\ \A k \in 1..Len(L) : RanksAhead(pairOf(k), q, K)

UnroundedAbs(p) == Abs(CorrValue(df, p[1], p[2]))
ReportedAbs(p) == Abs(Round3(CorrValue(df, p[1], p[2])))

\* C7 as stated: the list is the first 10 of the qualifying pairs sorted by
\* descending absolute correlation, ties in enumeration order; no omitted
\* qualifying pair has a larger absolute correlation than an emitted one.
C7_TopTenByCorrelation ==
    CorrelationListsSatisfy(LAMBDA L : IsTopRanked(L, UnroundedAbs))

\* C7 amended: the list is the first 10 of the qualifying pairs sorted by
\* descending absolute value of the reported (3-decimal) correlation, pairs
\* of equal reported absolute value in enumeration order; no omitted
\* qualifying pair has a larger reported absolute value than an emitted one.
C7_TopTenByReportedValue ==
    CorrelationListsSatisfy(LAMBDA L :
        /\ IsTopRanked(L, ReportedAbs)
        /\ \A k \in 1..Len(L) :
              L[k].correlation = Round3(CorrValue(df, L[k].var1, L[k].var2)))

\* a report of 10 entries that leaves a qualifying pair out and holds two
\* neighbours of equal reported but different unrounded absolute value
C7_Witness ==
    /\ Loaded
    /\ Succeeded
    /\ Len(report.correlation_matrix) = 10
    /\ Cardinality(QualifyingPairs) > 10
    /\ \E k \in 1..9 :
          LET a == report.correlation_matrix[k]
              b == report.correlation_matrix[k + 1]
          IN  /\ Abs(a.correlation) = Abs(b.correlation)
              /\ UnroundedAbs(<<a.var1, a.var2>>) # UnroundedAbs(<<b.var1, b.var2>>)

RuleIssues ==
    [critical |-> <<"Valores faltantes elevados", "Datos duplicados">>,
     moderate |-> <<"Valores atípicos detectados", "Consistencia baja">>,
     optional |-> <<"Normalización de datos", "Encoding de variables categóricas">>]

HasIssue(recs, issue) == \E k \in 1..Len(recs) : recs[k].issue = issue

\* the entries of a tier come from the tier's rules, each at most once and in
\* rule order
InRuleOrder(recs, rules) ==
    /\ \A k \in 1..Len(recs) : \E r \in 1..Len(rules) : recs[k].issue = rules[r]
    /\ \A k, l \in 1..Len(recs) : k < l =>
          \E r, t \in 1..Len(rules) : r < t /\ recs[k].issue = rules[r] /\ recs[l].issue = rules[t]

\* the recommendations R against the metrics md, du, ou, q and the column
\* counts the other methods report for the same dataset
RulesIndependent(R, md, du, ou, q, numeric, textual) ==
    /\ DOMAIN R = {"critical", "moderate", "optional"}
    /\ \A tier \in DOMAIN R : InRuleOrder(R[tier], RuleIssues[tier])
    /\ HasIssue(R.critical, RuleIssues.critical[1]) <=> md.total_missing_percentage > 1000
    /\ HasIssue(R.critical, RuleIssues.critical[2]) <=> du.total_duplicates > 0
    /\ HasIssue(R.moderate, RuleIssues.moderate[1]) <=> ou.total_outlier_percentage > 500
    /\ HasIssue(R.moderate, RuleIssues.moderate[2]) <=> q.consistency < 800
    /\ HasIssue(R.optional, RuleIssues.optional[1]) <=> numeric > 0
    /\ HasIssue(R.optional, RuleIssues.optional[2]) <=> textual > 0

\* C8: each of the six rules of generate_recommendations adds its entry if
\* and only if its own condition holds, whatever the other rules do; the
\* result has exactly the tiers critical, moderate, optional, each in rule
\* order (so more than 10% missing and a duplicate row give both critical
\* entries, missing values first).
C8_RulesIndependent ==
    /\ (Loaded /\ Called("generate_recommendations")) =>
          RulesIndependent(last.result, analyze_missing_data(df), analyze_duplicates(df),
                           detect_outliers(df), calculate_data_quality(df),
                           get_basic_info(df).data_types.numeric,
                           get_basic_info(df).data_types.object)
    /\ (Loaded /\ Succeeded) =>
          RulesIndependent(report.recommendations, report.missing_data, report.duplicates,
                           report.outliers, report.data_quality,
                           report.basic_info.data_types.numeric,
                           report.basic_info.data_types.object)

\* a report with both critical entries, missing values first
C8_Witness ==
    /\ Loaded
    /\ Succeeded
    /\ report.missing_data.total_missing_percentage > 1000
    /\ report.duplicates.total_duplicates > 0
    /\ Len(report.recommendations.critical) = 2
    /\ report.recommendations.critical[1].issue = "Valores faltantes elevados"
    /\ report.recommendations.critical[2].issue = "Datos duplicados"

\* C9: calculate_data_quality always reports consistency 85.0, and no
\* recommendations, direct or in a report, hold 'Consistencia baja'.
C9_ConsistencyFixed ==
    /\ (Loaded /\ Called("calculate_data_quality")) => last.result.consistency = 850
    /\ (Loaded /\ Called("generate_recommendations")) =>
          ~HasIssue(last.result.moderate, "Consistencia baja")
    /\ (Loaded /\ Succeeded) =>
          /\ report.data_quality.consistency = 850
          /\ ~HasIssue(report.recommendations.moderate, "Consistencia baja")

\* a report whose moderate tier holds the outlier entry alone
C9_Witness ==
    /\ Loaded
    /\ Succeeded
    /\ Len(report.recommendations.moderate) = 1
    /\ report.recommendations.moderate[1].issue = "Valores atípicos detectados"

\* C10: whatever was called on the analyzer, self.df and self.original_df
\* are the table the loader parsed, and a second analyze_complete returns
\* the report the first returned.
C10_ReadOnlyIdempotent ==
    Loaded =>
        /\ df = input.table
        /\ original_df = input.table
        /\ calls >= 2 => report = prev

\* two reports were returned and a metric method was called after them, on a
\* table with a duplicated row
C10_Witness ==
    /\ Loaded
    /\ calls = 2
    /\ Succeeded
    /\ prev.analysis_status = "success"
    /\ Called("analyze_duplicates")
    /\ df.dups > 0

---------------------------------------------------------------------------
(* The IQR rule, stated on the cells *)

\* the k-th smallest of the non-empty cells
OrderStatistic(vals, k) ==
    CHOOSE v \in {vals[r] : r \in 1..Len(vals)} \ {NaN} :
        /\ Cardinality({r \in 1..Len(vals) : vals[r] # NaN /\ vals[r] < v}) < k
        /\ k <= Cardinality({r \in 1..Len(vals) : vals[r] # NaN /\ vals[r] <= v})

\* the (25 * q4)-th percentile by linear interpolation, in quarters
Percentile(vals, q4) ==
    LET n == Cardinality({r \in 1..Len(vals) : vals[r] # NaN})
        k == (((n - 1) * q4) \div 4) + 1
        r == ((n - 1) * q4) % 4
    IN  IF r = 0 THEN 4 * OrderStatistic(vals, k)
        ELSE (4 - r) * OrderStatistic(vals, k) + r * OrderStatistic(vals, k + 1)

\* the value of row r is strictly below Q1 - 1.5*IQR or strictly above
\* Q3 + 1.5*IQR (compared in eighths); an empty cell is not
BeyondFences(vals, r) ==
    /\ vals[r] # NaN
    /\ LET p1 == Percentile(vals, 1)
           p3 == Percentile(vals, 3)
       IN  \/ 8 * vals[r] < 2 * p1 - 3 * (p3 - p1)
           \/ 8 * vals[r] > 2 * p3 + 3 * (p3 - p1)

\* in the result of detect_outliers, every column that Applies is reported
\* iff a row of it is beyond the fences, with the count of those rows
OutliersFollowRule(Applies(_)) ==
    (Loaded /\ Called("detect_outliers")) =>
        \A i \in 1..NCols(df) :
            Applies(df.cols[i]) =>
                LET vals    == df.cols[i].vals
                    beyond  == {r \in 1..Len(vals) : BeyondFences(vals, r)}
                    entries == {k \in 1..Len(last.result.columns_with_outliers) :
                                  last.result.columns_with_outliers[k].column = i}
                IN  /\ entries # {} <=> Cardinality(beyond) >= 1
                    /\ \A k \in entries :
                          last.result.columns_with_outliers[k].outlier_count = Cardinality(beyond)
                    /\ vals = <<1, 2, 3, 4, 5, 100>> =>
                          /\ Q1(vals) = 9 /\ Percentile(vals, 1) = 9
                          /\ Q3(vals) = 19 /\ Percentile(vals, 3) = 19
                          /\ upper_bound(vals) = 68
                          /\ beyond = {6}

\* C11: detect_outliers counts, for each numeric column, exactly the rows
\* whose value is strictly below Q1 - 1.5*IQR or strictly above Q3 + 1.5*IQR
\* (percentiles by linear interpolation; values on a fence and empty cells
\* are not counted) and reports the column iff that count is at least 1;
\* the column 1,2,3,4,5,100 has Q1 2.25, Q3 4.75, upper fence 8.5 and the
\* one outlier 100.
C11_OutliersByIQR == OutliersFollowRule(LAMBDA c : c.dtype \in NumericDtypes)

\* the same of the columns whose dtype is int64 or float64
IQRRuleOnInt64Float64 == OutliersFollowRule(LAMBDA c : IsInt64OrFloat64(c))

\* detect_outliers returned for a uint64 column with a row beyond the fences
Uint64OutlierUnreported ==
    /\ Loaded
    /\ Called("detect_outliers")
    /\ NCols(df) = 1
    /\ df.cols[1].dtype = "uint64"
    /\ df.cols[1].vals = <<1, 2, 3, 4, 5, 100>>
    /\ last.result.columns_with_outliers = <<>>

\* detect_outliers reported the one outlier of the int64 column 1,2,3,4,5,100
Int64ExampleReported ==
    /\ Loaded
    /\ Called("detect_outliers")
    /\ NCols(df) = 1
    /\ df.cols[1].dtype = "int64"
    /\ df.cols[1].vals = <<1, 2, 3, 4, 5, 100>>
    /\ Len(last.result.columns_with_outliers) = 1
    /\ last.result.columns_with_outliers[1].outlier_count = 1

---------------------------------------------------------------------------
(* Duplicated rows, stated on the cells *)

\* no two rows of the table hold the same cells
PairwiseDistinctRows(d) ==
    \A a \in 1..d.rows : \A b \in 1..d.rows :
        a < b => \E c \in 1..NCols(d) : d.cols[c].vals[a] # d.cols[c].vals[b]

\* C12: the duplicate percentage analyze_duplicates reports lies in
\* [0, 100]; on a table whose rows are pairwise distinct total_duplicates
\* is 0, uniqueness is 100.0 and no "Datos duplicados" recommendation is
\* made.
C12_DuplicatesBounded ==
    Loaded =>
        /\ Called("analyze_duplicates") =>
              /\ 0 <= last.result.percentage /\ last.result.percentage <= 10000
              /\ PairwiseDistinctRows(df) =>
                    last.result.total_duplicates = 0 /\ last.result.percentage = 0
        /\ (Called("calculate_data_quality") /\ PairwiseDistinctRows(df)) =>
              last.result.uniqueness = 1000
        /\ (Called("generate_recommendations") /\ PairwiseDistinctRows(df)) =>
              ~HasIssue(last.result.critical, "Datos duplicados")

\* recommendations were generated for a table of three pairwise distinct
\* rows whose first column repeats a value
C12_Witness ==
    /\ Loaded
    /\ Called("generate_recommendations")
    /\ NCols(df) = 2
    /\ df.rows = 3
    /\ PairwiseDistinctRows(df)
    /\ df.cols[1].vals[1] = df.cols[1].vals[2]
    /\ df.dups = 0

---------------------------------------------------------------------------
(* The upload handler *)

\* the rows the request created
Created == Len(records) - request.existing
Rejected ==
    ~request.valid \/ ~request.has_file \/ ~endswith(request.file_name, <<".", "c", "s", "v">>)

\* C13: post creates a DatasetAnalysis row only after the analyzer was
\* constructed and analyze_complete returned "success".  A request that is
\* rejected (invalid serializer, no file, name not ending in .csv), or
\* whose load or analysis fails, creates no row and is answered with a
\* status other than 200; a request whose analysis succeeded is answered
\* 200 with the report even if saving the row fails (analysis_id is then
\* None).
C13_RecordOnlyAfterSuccess ==
    /\ Created \in {0, 1}
    /\ Created = 1 =>
          /\ loadError = NoError
          /\ df = request.content.table
          /\ pc = "idle"
          /\ calls = 1
          /\ report.analysis_status = "success"
          /\ records[Len(records)].analysis_result = report
          /\ vpc = "responded"
    /\ vpc = "responded" =>
          /\ response.status # 200 => Created = 0
          /\ Rejected => response.status = 400 /\ pc = "start"
          /\ (~Rejected /\ request.read_fails) => response.status = 500 /\ pc = "start"
          /\ loadError # NoError => response.status = 500
          /\ report.analysis_status = "error" => response.status = 500
          /\ report.analysis_status = "success" =>
                /\ response.status = 200
                /\ response.analysis = report
                /\ request.create_fails => response.analysis_id = None /\ Created = 0
                /\ ~request.create_fails =>
                      Created = 1 /\ response.analysis_id = records[Len(records)].id
          /\ response.status = 200 => report.analysis_status = "success"

\* the analysis succeeded, saving the row failed, and the answer is 200
\* with the report and no analysis_id
C13_Witness ==
    /\ vpc = "responded"
    /\ report.analysis_status = "success"
    /\ request.create_fails
    /\ request.existing = 1
    /\ response.status = 200
    /\ response.analysis_id = None
    /\ Len(records) = 1

---------------------------------------------------------------------------
(* The kind of a column *)

\* column i is among the columns select_dtypes(include=[np.number]) returns
\* (get_basic_info, calculate_data_quality, calculate_correlations, the
\* normalization rule)
CountedNumeric(d, i) == \E k \in 1..Len(numeric_cols(d)) : numeric_cols(d)[k] = i
\* column i is among the columns select_dtypes(include=['object']) returns
\* (get_basic_info, the encoding rule)
CountedObject(d, i) == \E k \in 1..Len(ObjectCols(d)) : ObjectCols(d)[k] = i

\* C14: in every report, a column is counted as numeric by the np.number
\* selection iff detect_outliers examines it and get_column_statistics
\* gives it type "numeric", and a column of type "categorical" is counted
\* as textual ("object"); so the numeric and object counts of basic_info
\* are the numbers of columns of each type.
C14_SameClassification ==
    (Loaded /\ Succeeded) =>
        /\ \A i \in 1..NCols(df) :
              /\ CountedNumeric(df, i) <=>
                    /\ IsInt64OrFloat64(df.cols[i])
                    /\ report.column_statistics[i].type = "numeric"
              /\ report.column_statistics[i].type = "categorical" => CountedObject(df, i)
        /\ report.basic_info.data_types.numeric =
              Cardinality({i \in 1..NCols(df) : report.column_statistics[i].type = "numeric"})
        /\ report.basic_info.data_types.object =
              Cardinality({i \in 1..NCols(df) : report.column_statistics[i].type = "categorical"})

\* a report that counts a uint64 column as numeric and gives it type
\* "categorical"
Uint64CountedBothWays ==
    /\ Loaded
    /\ Succeeded
    /\ NCols(df) = 1
    /\ df.cols[1].dtype = "uint64"
    /\ report.basic_info.data_types.numeric = 1
    /\ report.basic_info.data_types.object = 0
    /\ report.column_statistics[1].type = "categorical"
    /\ HasIssue(report.recommendations.optional, "Normalización de datos")

\* a report that gives a bool column type "categorical" and counts no
\* object column
BoolCategoricalNotObject ==
    /\ Loaded
    /\ Succeeded
    /\ NCols(df) = 1
    /\ df.cols[1].dtype = "bool"
    /\ report.basic_info.data_types.object = 0
    /\ report.column_statistics[1].type = "categorical"
    /\ ~HasIssue(report.recommendations.optional, "Encoding de variables categóricas")

====
